---- MODULE Spec2Model ----
(***************************************************************************)
(* Model of the RAG backend: the chunker of the ingestion script           *)
(* (backend/scripts/ingest.ts) and the POST /api/chat/send handler         *)
(* (backend/src/routes/chat.ts) with the services it calls                 *)
(* (VectorStore.search, LLMService.generateResponse, the session store).   *)
(*                                                                         *)
(* Strings of the chunker are sequences of one-character strings;          *)
(* positions i are the 0-based positions of the source.                    *)
(***************************************************************************)
EXTENDS Integers, Sequences, FiniteSets, TLC

\* ------------------------------------------------------------------------
\* Bounds of the chunker model
\* ------------------------------------------------------------------------
MaxLen == 4          \* longest article text
MaxSize == 3         \* largest chunkSize / chunkOverlap drawn
MaxIter == MaxLen + 2 \* iterations explored of a loop that never ends

Alphabet == {"a", "b", " "}

VARIABLES
    text,            \* chunkText argument
    chunkSize,       \* config.ingest.chunkSize
    chunkOverlap,    \* config.ingest.chunkOverlap
    i,               \* loop variable of chunkText
    chunks,          \* result array of chunkText
    iter,            \* number of loop iterations executed so far
    cpc              \* position of chunkText: "loop" or "done"

chunkVars == <<text, chunkSize, chunkOverlap, i, chunks, iter, cpc>>

\* ------------------------------------------------------------------------
\* State of the chat service
\* ------------------------------------------------------------------------
VARIABLES
    sessions,        \* session store: session id -> ordered turns
    minted,          \* identifiers uuidv4() has returned so far
    index,           \* entries of the vector index collection
    llmProvider,     \* config.llm.provider
    llmReady,        \* providers LLMServiceClass.initializeProviders created
    req              \* the POST /send requests, one record per request

chatVars == <<sessions, minted, index, llmProvider, llmReady, req>>

\* ------------------------------------------------------------------------
\* State of the session store's clock and of the /history and /reset routes
\* ------------------------------------------------------------------------
VARIABLES
    expiry,          \* session id -> time at which its key expires, 0 if none
    now,             \* the clock, in seconds
    reply            \* the last answer of GET /history or POST /reset

storeVars == <<expiry, now, reply>>

\* ------------------------------------------------------------------------
\* State of an ingestion run (scripts/ingest.ts and VectorStore.addDocuments)
\* ------------------------------------------------------------------------
VARIABLES
    ipc,             \* position of ingestData / main
    vsType,          \* config.vectorStore.type
    initialized,     \* VectorStoreService.initialized
    maxArticles,     \* config.ingest.maxArticles
    feeds,           \* what the configured RSS feeds serve
    feedIdx,         \* number of feeds fetchArticles has gone through
    articles,        \* result array of fetchArticles
    documents,       \* result array of processArticles
    inFlight,        \* generateEmbedding calls issued and not yet settled
    points,          \* the (document, vector) pairs prepared for the backend
    batchAt,         \* loop variable i of the batch insert
    upserts,         \* the write calls the backend acknowledged, in order
    log,             \* what ingestData logged at info and error level
    exitCode,        \* process.exit code of main, -1 while running
    runs             \* number of earlier runs of the script

ingestVars ==
    <<ipc, vsType, initialized, maxArticles, feeds, feedIdx, articles,
      documents, inFlight, points, batchAt, upserts, log, exitCode, runs>>

\* ---- state of the server process ------------------------------------------
VARIABLES
    spc,             \* position of startServer
    redisConnected,  \* RedisClient.connect() has resolved
    listening,       \* app.listen has been called
    backendCalls,    \* calls of VectorStoreService that reached the backend
    storeResult      \* outcome of the last call of a VectorStoreService method

serverVars == <<spc, redisConnected, listening, backendCalls, storeResult>>

Max(a, b) == IF a > b THEN a ELSE b
Min(a, b) == IF a < b THEN a ELSE b

\* String.prototype.slice(from, to): negative arguments count from the end
Slice(s, from, to) ==
    LET len == Len(s)
        lo == IF from < 0 THEN Max(len + from, 0) ELSE Min(from, len)
        hi == IF to < 0 THEN Max(len + to, 0) ELSE Min(to, len)
    IN  IF hi <= lo THEN <<>> ELSE SubSeq(s, lo + 1, hi)

RECURSIVE TrimStart(_)
TrimStart(s) ==
    IF s = <<>> THEN s
    ELSE IF Head(s) = " " THEN TrimStart(Tail(s)) ELSE s

RECURSIVE TrimEnd(_)
TrimEnd(s) ==
    IF s = <<>> THEN s
    ELSE IF s[Len(s)] = " " THEN TrimEnd(SubSeq(s, 1, Len(s) - 1)) ELSE s

\* String.prototype.trim()
Trim(s) == TrimEnd(TrimStart(s))

\* the step of the for loop: i += chunkSize - chunkOverlap
StrideNoOverlap(size, overlap) == size
StrideSkip(size, overlap) == size - overlap + 1
Stride(size, overlap) == size - overlap

\* const chunk = text.slice(i, i + chunkSize)
WindowTooLong(t, pos, size) == Slice(t, pos, pos + size + 1)
Window(t, pos, size) == Slice(t, pos, pos + size)

\* if (chunk.trim().length > 0) chunks.push(chunk.trim())
PushUntrimmed(cs, chunk) ==
    IF Len(Trim(chunk)) > 0 THEN Append(cs, chunk) ELSE cs
PushChunk(cs, chunk) ==
    IF Len(Trim(chunk)) > 0 THEN Append(cs, Trim(chunk)) ELSE cs

\* all texts of at most n characters
TextsUpTo(n) == UNION {[1..k -> Alphabet] : k \in 0..n}

\* configSchema.ingest: chunkSize and chunkOverlap are z.number(), nothing
\* relates the two
IngestConfigParses(size, overlap) == size \in Int /\ overlap \in Int

ChunkInit ==
    /\ text \in TextsUpTo(MaxLen)
    /\ chunkSize \in 1..MaxSize
    /\ chunkOverlap \in 0..MaxSize
    /\ IngestConfigParses(chunkSize, chunkOverlap)
    /\ i = 0
    /\ chunks = <<>>
    /\ iter = 0
    /\ cpc = "loop"

\* one iteration of the for loop of chunkText
ChunkStep ==
    /\ cpc = "loop"
    /\ i < Len(text)
    /\ iter < MaxIter
    /\ chunks' = PushChunk(chunks, Window(text, i, chunkSize))
    /\ i' = i + Stride(chunkSize, chunkOverlap)
    /\ iter' = iter + 1
    /\ UNCHANGED <<text, chunkSize, chunkOverlap, cpc>>
    /\ UNCHANGED <<serverVars, chatVars, storeVars, ingestVars>>

\* the loop condition fails: return chunks
ChunkReturn ==
    /\ cpc = "loop"
    /\ ~(i < Len(text))
    /\ cpc' = "done"
    /\ UNCHANGED <<text, chunkSize, chunkOverlap, i, chunks, iter>>
    /\ UNCHANGED <<serverVars, chatVars, storeVars, ingestVars>>

ChunkNext == ChunkStep \/ ChunkReturn

\* ------------------------------------------------------------------------
\* POST /api/chat/send
\* ------------------------------------------------------------------------
MaxReq == 2          \* number of /send requests of a run

Requests == 1..MaxReq

NoId == "undefined"                 \* sessionId absent from the body
ClientIds == {"", "s1"}             \* strings a client may send of its own
UuidPool == {"uuid-1", "uuid-2", "uuid-3", "uuid-4"}
SessionIds == (ClientIds \ {""}) \cup UuidPool
Messages == {"m1", "m2"}            \* bodies accepted by sendMessageSchema

Providers == {"gemini", "openai", "huggingface"}
\* README: Google Gemini (primary) / OpenAI (fallback) / HuggingFace (local)
DeclaredOrder == <<"gemini", "openai", "huggingface">>

Apology ==
    "I apologize, but I encountered an error while processing your request. Please try again."
NoResponseGenerated == "No response generated"

\* text a backend generates when its API call succeeds
ProviderText(p) == "text generated by " \o p

Doc(id, score) ==
    [id |-> id, content |-> "content of " \o id,
     metadata |-> [title |-> "title of " \o id, url |-> "http://" \o id],
     score |-> score]
Docs == {Doc("d1", 9), Doc("d2", 7)}
TopK == 5

\* ---- session store (RedisClient) -----------------------------------------
\* get(sessionId): the ordered turns, empty for an unknown session
GetSessionHistory(store, sid) == store[sid]

\* append(sessionId, turn): adds the turn at the end of that session
AddToSessionHistory(store, sid, turn) ==
    [store EXCEPT ![sid] = Append(@, turn)]

\* config.redis: sessionTtl 7 days in seconds, queryTtl 1 hour in seconds
QueryTtl == 60 * 60
SessionTtl == 7 * 24 * 60 * 60

\* append(sessionId, turn) extends the TTL: the key expires SessionTtl from now
ExtendTtl(exp, sid, t) == [exp EXCEPT ![sid] = t + SessionTtl]

\* clear(sessionId): immediate deletion, independent of TTL
ClearSessionHistory(store, sid) ==
    [s \in DOMAIN store |-> IF s = sid THEN <<>> ELSE store[s]]

\* the keys whose TTL has elapsed at time t
Expired(exp, t) == {s \in DOMAIN exp : exp[s] # 0 /\ exp[s] <= t}

\* ---- VectorStoreService.search -------------------------------------------
\* query of the backend: the entries of the collection by descending score,
\* at most limit of them
RECURSIVE Ranked(_)
Ranked(entries) ==
    IF entries = {} THEN <<>>
    ELSE LET best == CHOOSE d \in entries : \A e \in entries : e.score <= d.score
         IN  <<best>> \o Ranked(entries \ {best})

BackendQuery(entries, limit) ==
    LET r == Ranked(entries) IN SubSeq(r, 1, Min(limit, Len(r)))

\* searchQdrant: results.map(result => ({id, content, metadata, score}))
SearchQdrant(entries, topK) ==
    [n \in 1..Len(BackendQuery(entries, topK)) |->
        LET result == BackendQuery(entries, topK)[n]
        IN  [id |-> result.id, content |-> result.content,
             metadata |-> result.metadata, score |-> result.score]]

SearchOutcomes == {"ok", "embedFailed", "indexFailed"}

\* API keys present in the environment, as far as the configured provider
\* and the other providers are concerned
ReadyCases(primary) ==
    {{}, {primary}, Providers \ {primary}, Providers}

\* providers whose API is failing while a request is generated
DownCases(primary) == {{}, {primary}, Providers}

\* ---- LLMServiceClass.generateResponse ------------------------------------
\* response.sources = context.map(doc => ({title, url, relevance}))
SourcesReversed(context) ==
    [n \in 1..Len(context) |->
        [title |-> context[Len(context) + 1 - n].metadata.title,
         url |-> context[Len(context) + 1 - n].metadata.url,
         relevance |-> context[Len(context) + 1 - n].score]]
Sources(context) ==
    [n \in 1..Len(context) |->
        [title |-> context[n].metadata.title,
         url |-> context[n].metadata.url,
         relevance |-> context[n].score]]

\* generateWithGemini / generateWithOpenAI / generateWithHuggingFace:
\* "throw" when the provider object is missing or its API call fails
GenerateWith(p, down, emptyCompletion) ==
    IF p \notin llmReady \/ p \in down THEN "throw"
    ELSE IF p = "openai" /\ emptyCompletion THEN NoResponseGenerated
    ELSE ProviderText(p)

GenerateResponseRethrows(context, down, emptyCompletion) ==
    LET text_ == GenerateWith(llmProvider, down, emptyCompletion)
    IN  IF text_ = "throw"
        THEN [threw |-> TRUE, content |-> Apology, sources |-> <<>>,
              streaming |-> FALSE, stream |-> <<>>]
        ELSE [threw |-> FALSE, content |-> text_, sources |-> Sources(context),
              streaming |-> FALSE, stream |-> <<>>]

\* try { switch (config.llm.provider) ... } catch { return apology }
GenerateResponse(context, down, emptyCompletion) ==
    LET text_ == GenerateWith(llmProvider, down, emptyCompletion)
    IN  IF text_ = "throw"
        THEN [threw |-> FALSE, content |-> Apology, sources |-> <<>>,
              streaming |-> FALSE, stream |-> <<>>]
        ELSE [threw |-> FALSE, content |-> text_, sources |-> Sources(context),
              streaming |-> FALSE, stream |-> <<>>]

\* ---- the prompt ------------------------------------------------------------
\* texts are sequences of pieces; the separator is the one the template
\* literals and join calls of the source spell out
Sep == "\\n"
NoContext == "No relevant context found in the knowledge base."
HistoryWindow == 5

\* Array.prototype.join
RECURSIVE Join(_, _)
Join(parts, sep) ==
    IF Len(parts) = 0 THEN <<>>
    ELSE IF Len(parts) = 1 THEN parts[1]
    ELSE parts[1] \o <<sep>> \o Join(Tail(parts), sep)

\* buildContextText: context.map((doc, index) =>
\* `[${index + 1}] ${doc.metadata.title}\\n${doc.content}\\n`).join('\\n')
BuildContextTextFromZero(context) ==
    IF Len(context) = 0 THEN <<>>
    ELSE Join([n \in 1..Len(context) |->
                <<"[", ToString(n - 1), "] ", context[n].metadata.title, Sep,
                  context[n].content, Sep>>], Sep)
BuildContextText(context) ==
    IF Len(context) = 0 THEN <<NoContext>>
    ELSE Join([n \in 1..Len(context) |->
                <<"[", ToString((n - 1) + 1), "] ", context[n].metadata.title, Sep,
                  context[n].content, Sep>>], Sep)

\* buildConversationHistory: history.slice(-5).map(msg =>
\* `${msg.role === 'user' ? 'User' : 'Assistant'}: ${msg.content}`).join('\\n')
BuildConversationHistoryWhole(history) ==
    Join([k \in 1..Len(history) |->
            <<IF history[k].role = "user" THEN "User" ELSE "Assistant", ": ",
              history[k].content>>], Sep)
BuildConversationHistory(history) ==
    LET recent == Slice(history, -HistoryWindow, Len(history))
    IN  Join([k \in 1..Len(recent) |->
                <<IF recent[k].role = "user" THEN "User" ELSE "Assistant", ": ",
                  recent[k].content>>], Sep)

\* what generateResponse hands to the provider
NoPrompt == [contextText |-> <<>>, conversationHistory |-> <<>>, message |-> "-"]
BuildPrompt(message, history, context) ==
    [contextText |-> BuildContextText(context),
     conversationHistory |-> BuildConversationHistory(history),
     message |-> message]

\* ---- the handler -----------------------------------------------------------
NoSources == <<>>
NoResponse ==
    [threw |-> FALSE, content |-> "-", sources |-> <<>>,
     streaming |-> FALSE, stream |-> <<>>]
\* the HTTP response before anything was written to it as an event stream
NoEventStream == [headers |-> FALSE, events |-> <<>>, ended |-> FALSE]
NoBody == [kind |-> "none", sessionId |-> "-", response |-> "-", sources |-> <<>>]
ErrorBody ==
    [kind |-> "Internal server error", sessionId |-> "-",
     response |-> "Failed to process message", sources |-> <<>>]

Call(op, key, info) == [op |-> op, key |-> key, info |-> info]

IdleRequest ==
    [pc |-> "idle", provided |-> NoId, message |-> "-", sessionId |-> "-",
     history |-> <<>>, retrievedDocs |-> <<>>, down |-> {},
     prompt |-> NoPrompt,
     response |-> NoResponse, calls |-> <<>>, status |-> 0, body |-> NoBody,
     sse |-> NoEventStream, connected |-> TRUE]

\* const sessionId = providedSessionId || uuidv4()
ResolveAlwaysMints(provided, fresh) == fresh
ResolveSessionId(provided, fresh) ==
    IF provided # NoId /\ provided # "" THEN provided ELSE fresh

\* { role: 'user', content: message, timestamp }
UserTurn(message) ==
    [role |-> "user", content |-> message, sources |-> NoSources]

\* { role: 'assistant', content: response.content, timestamp, sources }
AssistantTurnWithoutSources(response) ==
    [role |-> "assistant", content |-> response.content, sources |-> NoSources]
AssistantTurn(response) ==
    [role |-> "assistant", content |-> response.content,
     sources |-> response.sources]

\* session ids a client has learnt from the responses it received
ReturnedIds ==
    {req[r].body.sessionId : r \in {q \in Requests : req[q].status = 200}}

\* a request arrives; the handler resolves the session id and asks the
\* session store for the history
ReceiveSend(r) ==
    /\ req[r].pc = "idle"
    /\ \E provided \in {NoId} \cup ClientIds \cup ReturnedIds,
          message \in Messages :
          LET fresh == CHOOSE u \in UuidPool : u \notin minted
              sid == ResolveSessionId(provided, fresh)
          IN  /\ req' = [req EXCEPT ![r] =
                    [@ EXCEPT !.pc = "getHistory", !.provided = provided,
                              !.message = message, !.sessionId = sid]]
              /\ minted' = IF sid = fresh THEN minted \cup {fresh} ELSE minted
    /\ UNCHANGED <<sessions, index, llmProvider, llmReady>>
    /\ UNCHANGED <<serverVars, chunkVars, storeVars, ingestVars>>

\* const history = await RedisClient.getSessionHistory(sessionId), then
\* VectorStore.search(message, 5) is called
LoadHistory(r) ==
    /\ req[r].pc = "getHistory"
    /\ req' = [req EXCEPT ![r] =
          [@ EXCEPT !.pc = "search",
                    !.history = GetSessionHistory(sessions, req[r].sessionId),
                    !.calls = Append(@, Call("getSessionHistory", req[r].sessionId, "ok"))]]
    /\ UNCHANGED <<sessions, minted, index, llmProvider, llmReady>>
    /\ UNCHANGED <<serverVars, chunkVars, storeVars, ingestVars>>

\* what the handler does when VectorStore.search throws
SearchFailureRetriesForever(r, outcome) ==
    req' = [req EXCEPT ![r] =
        [@ EXCEPT !.calls = Append(@, Call("search", req[r].message, "throw"))]]
SearchFailureSwallowed(r, outcome) ==
    req' = [req EXCEPT ![r] =
        [@ EXCEPT !.pc = "generate",
                  !.calls = Append(@, Call("search", req[r].message, "throw"))]]
SearchFailure(r, outcome) ==
    req' = [req EXCEPT ![r] =
        [@ EXCEPT !.pc = "done", !.status = 500, !.body = ErrorBody,
                  !.calls = Append(@, Call("search", req[r].message, "throw"))]]

\* const retrievedDocs = await VectorStore.search(message, 5): the embedding
\* of the query or the backend query may throw, which the catch block of the
\* handler turns into the 500 answer
SearchDone(r) ==
    /\ req[r].pc = "search"
    /\ \E outcome \in SearchOutcomes :
          IF outcome = "ok"
          THEN req' = [req EXCEPT ![r] =
                  [@ EXCEPT !.pc = "generate",
                            !.retrievedDocs = SearchQdrant(index, TopK),
                            !.calls = Append(@, Call("search", req[r].message, "ok"))]]
          ELSE SearchFailure(r, outcome)
    /\ UNCHANGED <<sessions, minted, index, llmProvider, llmReady>>
    /\ UNCHANGED <<serverVars, chunkVars, storeVars, ingestVars>>

\* const response = await LLMService.generateResponse({...})
GenerateDone(r) ==
    /\ req[r].pc = "generate"
    /\ \E down \in DownCases(llmProvider), emptyCompletion \in BOOLEAN :
          LET response == GenerateResponse(req[r].retrievedDocs, down, emptyCompletion)
          IN  /\ emptyCompletion =>
                    (llmProvider = "openai" /\ "openai" \in llmReady \ down)
              /\ req' = [req EXCEPT ![r] =
                    IF response.threw
                    THEN [@ EXCEPT !.pc = "done", !.status = 500,
                                   !.body = ErrorBody, !.down = down,
                                   !.prompt = BuildPrompt(req[r].message, req[r].history, req[r].retrievedDocs),
                                   !.calls = Append(@, Call("generateResponse", req[r].sessionId, "throw"))]
                    ELSE [@ EXCEPT !.pc = "appendUser", !.down = down,
                                   !.prompt = BuildPrompt(req[r].message, req[r].history, req[r].retrievedDocs),
                                   !.response = response,
                                   !.calls = Append(@, Call("generateResponse", req[r].sessionId, "ok"))]]
    /\ UNCHANGED <<sessions, minted, index, llmProvider, llmReady>>
    /\ UNCHANGED <<serverVars, chunkVars, storeVars, ingestVars>>

\* await RedisClient.addToSessionHistory(sessionId, { role: 'user', ... })
AppendUserTurn(r) ==
    /\ req[r].pc = "appendUser"
    /\ sessions' = AddToSessionHistory(sessions, req[r].sessionId,
                                       UserTurn(req[r].message))
    /\ req' = [req EXCEPT ![r] =
          [@ EXCEPT !.pc = "appendAssistant",
                    !.calls = Append(@, Call("addToSessionHistory", req[r].sessionId, "user"))]]
    /\ UNCHANGED <<minted, index, llmProvider, llmReady>>
    /\ expiry' = ExtendTtl(expiry, req[r].sessionId, now)
    /\ UNCHANGED <<serverVars, chunkVars, now, reply, ingestVars>>

\* data: {"content": chunk, "done": false}
FragmentEventDone(chunk) ==
    [content |-> chunk, done |-> TRUE, sources |-> NoSources, sessionId |-> NoId]
FragmentEvent(chunk) ==
    [content |-> chunk, done |-> FALSE, sources |-> NoSources, sessionId |-> NoId]

\* data: {"content": "", "done": true, "sources": ..., "sessionId": ...}
TerminalEvent(sources, sessionId) ==
    [content |-> "", done |-> TRUE, sources |-> sources, sessionId |-> sessionId]

\* await RedisClient.addToSessionHistory(sessionId, { role: 'assistant', ... })
\* and then either res.writeHead(200, event-stream headers) or
\* res.json({ sessionId, response, sources, timestamp })
AppendAssistantTurn(r) ==
    /\ req[r].pc = "appendAssistant"
    /\ sessions' = AddToSessionHistory(sessions, req[r].sessionId,
                                       AssistantTurn(req[r].response))
    /\ req' = [req EXCEPT ![r] =
          IF req[r].response.streaming
          THEN [@ EXCEPT !.pc = "streaming", !.status = 200,
                         !.sse = [headers |-> TRUE, events |-> <<>>, ended |-> FALSE],
                         !.calls = Append(@, Call("addToSessionHistory", req[r].sessionId, "assistant"))]
          ELSE [@ EXCEPT !.pc = "done", !.status = 200,
                         !.body = [kind |-> "json", sessionId |-> req[r].sessionId,
                                   response |-> req[r].response.content,
                                   sources |-> req[r].response.sources],
                         !.calls = Append(@, Call("addToSessionHistory", req[r].sessionId, "assistant"))]]
    /\ UNCHANGED <<minted, index, llmProvider, llmReady>>
    /\ expiry' = ExtendTtl(expiry, req[r].sessionId, now)
    /\ UNCHANGED <<serverVars, chunkVars, now, reply, ingestVars>>

\* ---- the event-stream branch of the handler --------------------------------
MaxFragments == 2
Fragments == {"a", "b"}
FragmentSeqs == UNION {[1..n -> Fragments] : n \in 0..MaxFragments}

\* interface LLMResponse { content: string; sources?; streaming?: boolean;
\* stream?: AsyncGenerator<string> }: the two fields are independent
StreamingResponses(context) ==
    {[threw |-> FALSE, content |-> content, sources |-> Sources(context),
      streaming |-> TRUE, stream |-> stream] :
        content \in {"", "ab"}, stream \in FragmentSeqs}

\* const response = await LLMService.generateResponse({...}) resolving to a
\* response that carries a stream
GenerateStreamDone(r) ==
    /\ req[r].pc = "generate"
    /\ \E response \in StreamingResponses(req[r].retrievedDocs) :
          req' = [req EXCEPT ![r] =
              [@ EXCEPT !.pc = "appendUser", !.response = response,
                        !.prompt = BuildPrompt(req[r].message, req[r].history, req[r].retrievedDocs),
                        !.calls = Append(@, Call("generateResponse", req[r].sessionId, "stream"))]]
    /\ UNCHANGED <<sessions, minted, index, llmProvider, llmReady>>
    /\ UNCHANGED <<serverVars, chunkVars, storeVars, ingestVars>>

\* for await (const chunk of response.stream!) res.write(data: {chunk, false})
StreamFragment(r) ==
    /\ req[r].pc = "streaming"
    /\ Len(req[r].sse.events) < Len(req[r].response.stream)
    /\ req' = [req EXCEPT ![r].sse.events =
          Append(@, FragmentEvent(req[r].response.stream[Len(req[r].sse.events) + 1]))]
    /\ UNCHANGED <<sessions, minted, index, llmProvider, llmReady>>
    /\ UNCHANGED <<serverVars, chunkVars, storeVars, ingestVars>>

\* the stream is exhausted: res.write(data: {"", true, sources, sessionId});
\* res.end()
StreamEnd(r) ==
    /\ req[r].pc = "streaming"
    /\ Len(req[r].sse.events) = Len(req[r].response.stream)
    /\ req' = [req EXCEPT ![r] =
          [@ EXCEPT !.pc = "done",
                    !.sse = [headers |-> TRUE,
                             events |-> Append(req[r].sse.events,
                                 TerminalEvent(req[r].response.sources, req[r].sessionId)),
                             ended |-> TRUE]]]
    /\ UNCHANGED <<sessions, minted, index, llmProvider, llmReady>>
    /\ UNCHANGED <<serverVars, chunkVars, storeVars, ingestVars>>

\* the stream rejects while it is being read: catch (error) {
\* res.status(500).json(...) } with the headers already written, so json()
\* throws inside the catch block and the handler's promise rejects
StreamThrows(r) ==
    /\ req[r].pc = "streaming"
    /\ req' = [req EXCEPT ![r].pc = "unhandledRejection"]
    /\ UNCHANGED <<sessions, minted, index, llmProvider, llmReady>>
    /\ UNCHANGED <<serverVars, chunkVars, storeVars, ingestVars>>

\* the caller closes the connection; the handler registers no listener for it
ClientDisconnect(r) ==
    /\ req[r].pc = "streaming"
    /\ req[r].connected
    /\ req' = [req EXCEPT ![r].connected = FALSE]
    /\ UNCHANGED <<sessions, minted, index, llmProvider, llmReady>>
    /\ UNCHANGED <<serverVars, chunkVars, storeVars, ingestVars>>

StreamSteps(r) ==
    \/ ReceiveSend(r)
    \/ LoadHistory(r)
    \/ SearchDone(r)
    \/ GenerateStreamDone(r)
    \/ AppendUserTurn(r)
    \/ AppendAssistantTurn(r)
    \/ StreamFragment(r)
    \/ StreamEnd(r)
    \/ StreamThrows(r)
    \/ ClientDisconnect(r)

\* one request answered as an event stream
StreamNext == StreamSteps(1)

\* ---- GET /history, POST /reset and the passing of time ----------------------
MaxCalls == 2
MaxClock == 8
Day == 24 * 60 * 60

NoReply ==
    [n |-> 0, op |-> "none", sessionId |-> NoId, status |-> 0, messages |-> <<>>]

\* GET /history: 400 unless the query carries a non-empty sessionId, else
\* res.json({ sessionId, messages: history, count: history.length })
HistoryRequest ==
    /\ reply.n < MaxCalls
    /\ \E sid \in {NoId} \cup ClientIds \cup ReturnedIds :
          reply' =
              IF sid = NoId \/ sid = ""
              THEN [n |-> reply.n + 1, op |-> "history", sessionId |-> sid,
                    status |-> 400, messages |-> <<>>]
              ELSE [n |-> reply.n + 1, op |-> "history", sessionId |-> sid,
                    status |-> 200,
                    messages |-> GetSessionHistory(sessions, sid)]
    /\ UNCHANGED <<serverVars, chunkVars, chatVars, expiry, now, ingestVars>>

\* POST /reset: await RedisClient.clearSessionHistory(sessionId);
\* res.json({ success: true, message, sessionId })
ResetRequestKeepsTurns ==
    /\ reply.n < MaxCalls
    /\ \E sid \in ClientIds \cup ReturnedIds :
          reply' = [n |-> reply.n + 1, op |-> "reset", sessionId |-> sid,
                    status |-> 200, messages |-> <<>>]
    /\ UNCHANGED <<serverVars, chunkVars, chatVars, expiry, now, ingestVars>>
ResetRequest ==
    /\ reply.n < MaxCalls
    /\ \E sid \in ClientIds \cup ReturnedIds :
          /\ sessions' = ClearSessionHistory(sessions, sid)
          /\ expiry' = [s \in DOMAIN expiry |-> IF s = sid THEN 0 ELSE expiry[s]]
          /\ reply' = [n |-> reply.n + 1, op |-> "reset", sessionId |-> sid,
                       status |-> 200, messages |-> <<>>]
    /\ UNCHANGED <<minted, index, llmProvider, llmReady, req, now>>
    /\ UNCHANGED <<serverVars, chunkVars, ingestVars>>

\* a day passes; the keys whose TTL has elapsed are gone
Tick ==
    /\ now < MaxClock * Day
    /\ now' = now + Day
    /\ sessions' = [s \in DOMAIN sessions |->
          IF s \in Expired(expiry, now + Day) THEN <<>> ELSE sessions[s]]
    /\ UNCHANGED <<minted, index, llmProvider, llmReady, req, expiry, reply>>
    /\ UNCHANGED <<serverVars, chunkVars, ingestVars>>

\* the service after startup: no session, the collection filled by an
\* ingestion run, no request yet
ServiceStarted ==
    /\ sessions = [s \in SessionIds |-> <<>>]
    /\ minted = {}
    /\ index = Docs
    /\ req = [r \in Requests |-> IdleRequest]
    /\ expiry = [s \in SessionIds |-> 0]
    /\ now = 0
    /\ reply = NoReply

\* the deployment of the README: LLM_PROVIDER=gemini with GEMINI_API_KEY set
ChatInit ==
    /\ ServiceStarted
    /\ llmProvider = "gemini"
    /\ llmReady = {"gemini"}

\* every provider choice, with and without the API keys
GenInit ==
    /\ ServiceStarted
    /\ llmProvider \in Providers
    /\ llmReady \in ReadyCases(llmProvider)

\* a session that already holds some turns, another session of another
\* caller, and a collection with some or none of the entries
MaxPast == 7
PastTurns(n) ==
    [k \in 1..n |->
        [role |-> IF k % 2 = 1 THEN "user" ELSE "assistant",
         content |-> "t" \o ToString(k), sources |-> NoSources]]
OtherTurns ==
    << [role |-> "user", content |-> "o1", sources |-> NoSources],
       [role |-> "assistant", content |-> "o2", sources |-> NoSources] >>

PromptInit ==
    /\ \E n \in 0..MaxPast :
          sessions = [s \in SessionIds |->
                        IF s = "s1" THEN PastTurns(n)
                        ELSE IF s = "uuid-1" THEN OtherTurns ELSE <<>>]
    /\ minted = {"uuid-1"}
    /\ index \in SUBSET Docs
    /\ req = [r \in Requests |-> IdleRequest]
    /\ expiry = [s \in SessionIds |-> IF sessions[s] = <<>> THEN 0 ELSE SessionTtl]
    /\ now = 0
    /\ reply = NoReply
    /\ llmProvider = "gemini"
    /\ llmReady = {"gemini"}

SendSteps(r) ==
    \/ ReceiveSend(r)
    \/ LoadHistory(r)
    \/ SearchDone(r)
    \/ GenerateDone(r)
    \/ AppendUserTurn(r)
    \/ AppendAssistantTurn(r)

\* concurrent requests under one configuration
ChatNext == \E r \in Requests : SendSteps(r)

\* one request under every configuration
GenNext == SendSteps(1)

\* one caller: a request is issued when the earlier ones were answered, and
\* a request is answered within the day it arrived
Answered(r) == \A q \in 1..(r - 1) : req[q].pc = "done"
NoneInFlight == \A q \in Requests : req[q].pc \in {"idle", "done"}

\* the requests of one caller, one after the other
PromptNext == \E r \in Requests : Answered(r) /\ SendSteps(r)

SessionNext ==
    \/ \E r \in Requests : Answered(r) /\ SendSteps(r)
    \/ NoneInFlight /\ HistoryRequest
    \/ NoneInFlight /\ ResetRequest
    \/ NoneInFlight /\ Tick

\* ------------------------------------------------------------------------
\* The ingestion run: ingestData, fetchArticles, processArticles and
\* VectorStore.addDocuments
\* ------------------------------------------------------------------------
MaxFeeds == 2
MaxItems == 2
MaxArticles == 3
MaxBulkArticles == 16

\* article.content.length > 100; content.slice(0, 10000); const batchSize = 100
MinContentLength == 100
MaxContentLength == 10000
BatchSize == 100
\* config.ingest defaults: maxArticles 50, chunkSize 1000, chunkOverlap 200
DefaultMaxArticles == 50
DefaultChunkSize == 1000
DefaultChunkOverlap == 200

\* length of the text extractContent returns for an item: '' after an error,
\* else the cleaned text cut at 10000 characters
ContentLengths == {0, MinContentLength, MinContentLength + 1, DefaultChunkSize + 1}

Feed(parses, items) == [parses |-> parses, items |-> items]
ItemSeqs == UNION {[1..n -> ContentLengths] : n \in 0..MaxItems}
FeedChoices ==
    {Feed(FALSE, <<>>)} \cup {Feed(TRUE, items) : items \in ItemSeqs}

\* Math.ceil(config.ingest.maxArticles / config.ingest.rssFeeds.length)
MaxArticlesPerFeed(limit, nFeeds) == (limit + nFeeds - 1) \div nFeeds

\* feed.items.slice(0, maxArticlesPerFeed)
TakenFrom(feed, perFeed) == SubSeq(feed.items, 1, Min(Len(feed.items), perFeed))

\* { title, content, url, publishedAt, source } of item k of feed f
Article(f, k, length) ==
    [title |-> <<"title", f, k>>, url |-> <<"url", f, k>>,
     publishedAt |-> <<"date", f, k>>, source |-> f, length |-> length]

\* feedArticles.filter(article => article.content.length > 100)
FeedArticles(f, feed, perFeed) ==
    SelectSeq([k \in 1..Len(TakenFrom(feed, perFeed)) |->
                  Article(f, k, feed.items[k])],
              LAMBDA a : a.length > MinContentLength)

\* chunkText on a cleaned text of the given length: one chunk per start
\* i = 0, stride, 2 * stride, ... below the length (a window of a cleaned,
\* trimmed text is never blank)
ChunkCount(length) ==
    IF length = 0 THEN 0
    ELSE (length + Stride(chunkSize, chunkOverlap) - 1)
             \div Stride(chunkSize, chunkOverlap)

\* { id: `${uuidv4()}-${i}`, content: chunks[i], metadata: { title, url,
\* timestamp, source } }; the uuid is fresh for every document
DocumentWithoutUuid(a, article, j) ==
    [id |-> [uuid |-> <<0, 0, 0>>, i |-> j],
     content |-> <<article.url, j>>,
     metadata |-> [title |-> article.title, url |-> article.url,
                   timestamp |-> article.publishedAt,
                   source |-> article.source]]
Document(a, article, j) ==
    [id |-> [uuid |-> <<runs, a, j>>, i |-> j],
     content |-> <<article.url, j>>,
     metadata |-> [title |-> article.title, url |-> article.url,
                   timestamp |-> article.publishedAt,
                   source |-> article.source]]

RECURSIVE ProcessArticles(_, _)
ProcessArticles(arts, a) ==
    IF a > Len(arts) THEN <<>>
    ELSE [j \in 1..ChunkCount(arts[a].length) |-> Document(a, arts[a], j - 1)]
         \o ProcessArticles(arts, a + 1)

\* EmbeddingService.generateEmbedding(text): one vector per text
GenerateEmbedding(content) == <<"vector", content>>

\* { id, vector: embeddings[index], payload: { content, metadata } }
Point(doc) ==
    [id |-> doc.id, vector |-> GenerateEmbedding(doc.content),
     content |-> doc.content, metadata |-> doc.metadata]

\* points.slice(i, i + batchSize)
Batch(pts, at) == SubSeq(pts, at + 1, Min(Len(pts), at + BatchSize))

Range(seq) == {seq[k] : k \in 1..Len(seq)}

\* the collection after an acknowledged write: entries are keyed by id
Upsert(collection, batch) ==
    {e \in collection : \A b \in Range(batch) : b.id # e.id} \cup Range(batch)

Logged(msg, n) == [msg |-> msg, n |-> n]

\* catch (error) { logger.error('Data ingestion failed:', error); throw error }
IngestDataCatchSwallows == "resolved"
IngestDataCatch == "rejected"

\* an awaited call of ingestData rejected
IngestFails ==
    /\ ipc' = IngestDataCatch
    /\ log' = Append(log, Logged("Data ingestion failed", 0))

\* await VectorStore.initialize(): connects and sets initialized, or throws
IngestInitialize ==
    /\ ipc = "start"
    /\ \/ /\ initialized' = TRUE
          /\ ipc' = "fetch"
          /\ UNCHANGED log
       \/ /\ IngestFails
          /\ UNCHANGED initialized
    /\ UNCHANGED <<vsType, maxArticles, feeds, feedIdx, articles, documents,
                   inFlight, points, batchAt, upserts, exitCode, runs>>
    /\ UNCHANGED <<serverVars, chunkVars, chatVars, storeVars>>

\* one iteration of for (const feedUrl of config.ingest.rssFeeds), first
\* half: await this.parser.parseURL(feedUrl); a feed that does not parse is
\* logged and skipped
FetchFeed ==
    /\ ipc = "fetch"
    /\ feedIdx < Len(feeds)
    /\ IF feeds[feedIdx + 1].parses
       THEN ipc' = "extract" /\ UNCHANGED feedIdx
       ELSE feedIdx' = feedIdx + 1 /\ UNCHANGED ipc
    /\ UNCHANGED <<vsType, initialized, maxArticles, feeds, articles, documents,
                   inFlight, points, batchAt, upserts, log, exitCode, runs>>
    /\ UNCHANGED <<serverVars, chunkVars, chatVars, storeVars>>

\* second half: await Promise.all(items.map(extractContent)) and
\* articles.push(...feedArticles.filter(...))
ExtractFeed ==
    /\ ipc = "extract"
    /\ LET f == feedIdx + 1
           perFeed == MaxArticlesPerFeed(maxArticles, Len(feeds))
       IN  /\ feedIdx' = f
           /\ articles' = articles \o FeedArticles(f, feeds[f], perFeed)
    /\ ipc' = "fetch"
    /\ UNCHANGED <<vsType, initialized, maxArticles, feeds, documents,
                   inFlight, points, batchAt, upserts, log, exitCode, runs>>
    /\ UNCHANGED <<serverVars, chunkVars, chatVars, storeVars>>

\* fetchArticles returns; logger.info(`Fetched ${articles.length} articles`);
\* processArticles; logger.info(`Processed ${documents.length} documents`)
ProcessFetched ==
    /\ ipc = "fetch"
    /\ feedIdx = Len(feeds)
    /\ documents' = ProcessArticles(articles, 1)
    /\ log' = log \o << Logged("Fetched articles", Len(articles)),
                        Logged("Processed documents", Len(documents')) >>
    /\ ipc' = "add"
    /\ UNCHANGED <<vsType, initialized, maxArticles, feeds, feedIdx, articles,
                   inFlight, points, batchAt, upserts, exitCode, runs>>
    /\ UNCHANGED <<serverVars, chunkVars, chatVars, storeVars>>

\* VectorStore.addDocuments(documents): throws unless initialized, else
\* Promise.all(documents.map(doc => generateEmbedding(doc.content))) issues
\* one call per document
AddDocuments ==
    /\ ipc = "add"
    /\ IF initialized
       THEN /\ inFlight' = Len(documents)
            /\ ipc' = "embed"
            /\ UNCHANGED log
       ELSE /\ IngestFails
            /\ UNCHANGED inFlight
    /\ UNCHANGED <<vsType, initialized, maxArticles, feeds, feedIdx, articles,
                   documents, points, batchAt, upserts, exitCode, runs>>
    /\ UNCHANGED <<serverVars, chunkVars, chatVars, storeVars>>

\* one generateEmbedding call resolves
EmbedResolves ==
    /\ ipc = "embed"
    /\ inFlight > 0
    /\ inFlight' = inFlight - 1
    /\ UNCHANGED <<ipc, vsType, initialized, maxArticles, feeds, feedIdx,
                   articles, documents, points, batchAt, upserts, log, exitCode, runs>>
    /\ UNCHANGED <<serverVars, chunkVars, chatVars, storeVars>>

\* one generateEmbedding call rejects: Promise.all rejects at once
EmbedRejects ==
    /\ ipc = "embed"
    /\ inFlight > 0
    /\ IngestFails
    /\ UNCHANGED <<vsType, initialized, maxArticles, feeds, feedIdx, articles,
                   documents, inFlight, points, batchAt, upserts, exitCode, runs>>
    /\ UNCHANGED <<serverVars, chunkVars, chatVars, storeVars>>

\* Promise.all resolved: documents.map((doc, index) => ({ id, vector:
\* embeddings[index], payload }))
EmbedAllDone ==
    /\ ipc = "embed"
    /\ inFlight = 0
    /\ points' = [k \in 1..Len(documents) |-> Point(documents[k])]
    /\ batchAt' = 0
    /\ ipc' = "upsert"
    /\ UNCHANGED <<vsType, initialized, maxArticles, feeds, feedIdx, articles,
                   documents, inFlight, upserts, log, exitCode, runs>>
    /\ UNCHANGED <<serverVars, chunkVars, chatVars, storeVars>>

\* one iteration of for (let i = 0; i < points.length; i += batchSize):
\* await this.qdrant.upsert(collection, { wait: true, points: batch })
UpsertBatch ==
    /\ ipc = "upsert"
    /\ vsType = "qdrant"
    /\ batchAt < Len(points)
    /\ index' = Upsert(index, Batch(points, batchAt))
    /\ upserts' = Append(upserts, Batch(points, batchAt))
    /\ batchAt' = batchAt + BatchSize
    /\ UNCHANGED <<ipc, vsType, initialized, maxArticles, feeds, feedIdx,
                   articles, documents, inFlight, points, log, exitCode, runs>>
    /\ UNCHANGED <<sessions, minted, llmProvider, llmReady, req>>
    /\ UNCHANGED <<serverVars, chunkVars, storeVars>>

UpsertDoneBeforeLastBatch ==
    /\ ipc = "upsert"
    /\ vsType = "qdrant"
    /\ batchAt >= 0
    /\ ipc' = "resolved"
    /\ log' = Append(log, Logged("Data ingestion completed successfully", 0))
    /\ UNCHANGED <<vsType, initialized, maxArticles, feeds, feedIdx, articles,
                   documents, inFlight, points, batchAt, upserts, exitCode, runs>>
    /\ UNCHANGED <<serverVars, chunkVars, chatVars, storeVars>>
\* the loop is over: addDocuments returns and ingestData logs
\* 'Data ingestion completed successfully'
UpsertDone ==
    /\ ipc = "upsert"
    /\ vsType = "qdrant"
    /\ batchAt >= Len(points)
    /\ ipc' = "resolved"
    /\ log' = Append(log, Logged("Data ingestion completed successfully", 0))
    /\ UNCHANGED <<vsType, initialized, maxArticles, feeds, feedIdx, articles,
                   documents, inFlight, points, batchAt, upserts, exitCode, runs>>
    /\ UNCHANGED <<serverVars, chunkVars, chatVars, storeVars>>

\* await this.chroma.add(collection, { ids, embeddings, metadatas,
\* documents }) with everything at once, then the same return path
ChromaAdd ==
    /\ ipc = "upsert"
    /\ vsType = "chroma"
    /\ index' = Upsert(index, points)
    /\ upserts' = Append(upserts, points)
    /\ batchAt' = Len(points)
    /\ ipc' = "resolved"
    /\ log' = Append(log, Logged("Data ingestion completed successfully", 0))
    /\ UNCHANGED <<vsType, initialized, maxArticles, feeds, feedIdx, articles,
                   documents, inFlight, points, exitCode, runs>>
    /\ UNCHANGED <<sessions, minted, llmProvider, llmReady, req>>
    /\ UNCHANGED <<serverVars, chunkVars, storeVars>>

\* the write call of the backend rejects
UpsertFails ==
    /\ ipc = "upsert"
    /\ vsType = "qdrant" => batchAt < Len(points)
    /\ IngestFails
    /\ UNCHANGED <<vsType, initialized, maxArticles, feeds, feedIdx, articles,
                   documents, inFlight, points, batchAt, upserts, exitCode, runs>>
    /\ UNCHANGED <<serverVars, chunkVars, chatVars, storeVars>>

\* main: process.exit(0) after ingestData resolved, process.exit(1) after it
\* rejected
ExitMain ==
    /\ ipc \in {"resolved", "rejected"}
    /\ exitCode' = IF ipc = "resolved" THEN 0 ELSE 1
    /\ ipc' = "exited"
    /\ UNCHANGED <<vsType, initialized, maxArticles, feeds, feedIdx, articles,
                   documents, inFlight, points, batchAt, upserts, log, runs>>
    /\ UNCHANGED <<serverVars, chunkVars, chatVars, storeVars>>

\* the script is started again over the same feeds; the collection persists
MaxReruns == 1

RunAgain ==
    /\ ipc = "exited"
    /\ runs < MaxReruns
    /\ runs' = runs + 1
    /\ ipc' = "start"
    /\ initialized' = FALSE
    /\ feedIdx' = 0
    /\ articles' = <<>>
    /\ documents' = <<>>
    /\ inFlight' = 0
    /\ points' = <<>>
    /\ batchAt' = 0
    /\ upserts' = <<>>
    /\ log' = <<>>
    /\ exitCode' = -1
    /\ UNCHANGED <<vsType, maxArticles, feeds>>
    /\ UNCHANGED <<serverVars, chunkVars, chatVars, storeVars>>

IngestNext ==
    \/ IngestInitialize
    \/ FetchFeed
    \/ ExtractFeed
    \/ ProcessFetched
    \/ AddDocuments
    \/ EmbedResolves
    \/ EmbedRejects
    \/ EmbedAllDone
    \/ UpsertBatch
    \/ UpsertDone
    \/ ChromaAdd
    \/ UpsertFails
    \/ ExitMain

\* the script has just been started
IngestStarted ==
    /\ ipc = "start"
    /\ vsType \in {"qdrant", "chroma"}
    /\ initialized = FALSE
    /\ feedIdx = 0
    /\ articles = <<>>
    /\ documents = <<>>
    /\ inFlight = 0
    /\ points = <<>>
    /\ batchAt = 0
    /\ upserts = <<>>
    /\ log = <<>>
    /\ exitCode = -1
    /\ runs = 0

\* a few feeds with a few items each, any article cap
IngestInit ==
    /\ IngestStarted
    /\ maxArticles \in 1..MaxArticles
    /\ feeds \in UNION {[1..n -> FeedChoices] : n \in 1..MaxFeeds}

\* one feed with a few items, any article cap
ReingestInit ==
    /\ IngestStarted
    /\ maxArticles \in 1..MaxArticles
    /\ feeds \in [1..1 -> FeedChoices]

ReingestNext == IngestNext \/ RunAgain

\* the default article cap and one feed of full-length articles
BulkInit ==
    /\ IngestStarted
    /\ maxArticles = DefaultMaxArticles
    /\ \E n \in 0..MaxBulkArticles :
          feeds = << Feed(TRUE, [k \in 1..n |-> MaxContentLength]) >>

\* the chunk parameters of the default configuration, chunkText not running
ChunkDefaults ==
    /\ text = <<>>
    /\ chunkSize = DefaultChunkSize
    /\ chunkOverlap = DefaultChunkOverlap
    /\ i = 0
    /\ chunks = <<>>
    /\ iter = 0
    /\ cpc = "done"

\* no ingestion script running
IngestIdle ==
    /\ ipc = "idle"
    /\ vsType = "qdrant"
    /\ initialized = FALSE
    /\ maxArticles = DefaultMaxArticles
    /\ feeds = <<>>
    /\ feedIdx = 0
    /\ articles = <<>>
    /\ documents = <<>>
    /\ inFlight = 0
    /\ points = <<>>
    /\ batchAt = 0
    /\ upserts = <<>>
    /\ log = <<>>
    /\ exitCode = -1
    /\ runs = 0

\* ---- startServer and the methods of VectorStoreService ---------------------
MaxOps == 3

\* similarity 1.0, scores and distances being counted in tenths
One == 10

\* what the collection may hold; score is the similarity to the query
EntryPool == {Doc("d1", 10), Doc("d2", 7), Doc("d3", 7), Doc("d4", 2)}

NotInitialized == "Vector store not initialized"
NoResult == [op |-> "-", arg |-> 0, threw |-> "-", value |-> <<>>]

\* chroma.query({ query_embeddings, n_results, include }): the nearest
\* n_results entries by ascending distance
ChromaQuery(entries, n) ==
    LET r == BackendQuery(entries, n)
    IN  [k \in 1..Len(r) |->
            [id |-> r[k].id, document |-> r[k].content,
             metadata |-> r[k].metadata, distance |-> One - r[k].score]]

\* searchChroma: score: 1 - (results.distances?.[0]?.[index] || 0)
SearchChromaKeepsDistance(entries, topK) ==
    LET results == ChromaQuery(entries, topK)
    IN  [n \in 1..Len(results) |->
            [id |-> results[n].id, content |-> results[n].document,
             metadata |-> results[n].metadata,
             score |-> results[n].distance]]
SearchChroma(entries, topK) ==
    LET results == ChromaQuery(entries, topK)
    IN  [n \in 1..Len(results) |->
            [id |-> results[n].id, content |-> results[n].document,
             metadata |-> results[n].metadata,
             score |-> One - (IF results[n].distance = 0 THEN 0
                              ELSE results[n].distance)]]

\* search(query, topK): dispatch on config.vectorStore.type
VectorSearch(entries, topK) ==
    IF vsType = "qdrant" THEN SearchQdrant(entries, topK)
    ELSE SearchChroma(entries, topK)

\* a method of VectorStoreService is called: it throws unless initialized,
\* otherwise it calls the backend, which changes the collection to after and
\* the method returns value
StoreCallSkipsGuard(op, arg, value, after) ==
    /\ spc # "exited"
    /\ Len(backendCalls) < MaxOps
    /\ storeResult' = [op |-> op, arg |-> arg, threw |-> "", value |-> value]
    /\ backendCalls' = Append(backendCalls, op)
    /\ index' = after
    /\ UNCHANGED <<spc, redisConnected, listening>>
    /\ UNCHANGED <<sessions, minted, llmProvider, llmReady, req>>
    /\ UNCHANGED <<ipc, vsType, initialized, maxArticles, feeds, feedIdx,
                   articles, documents, inFlight, points, batchAt, upserts,
                   log, exitCode, runs>>
    /\ UNCHANGED <<chunkVars, storeVars>>
StoreCall(op, arg, value, after) ==
    /\ spc # "exited"
    /\ IF ~initialized
       THEN /\ storeResult' = [op |-> op, arg |-> arg, threw |-> NotInitialized,
                            value |-> <<>>]
            /\ UNCHANGED <<backendCalls, index>>
       ELSE /\ Len(backendCalls) < MaxOps
            /\ storeResult' = [op |-> op, arg |-> arg, threw |-> "", value |-> value]
            /\ backendCalls' = Append(backendCalls, op)
            /\ index' = after
    /\ UNCHANGED <<spc, redisConnected, listening>>
    /\ UNCHANGED <<sessions, minted, llmProvider, llmReady, req>>
    /\ UNCHANGED <<ipc, vsType, initialized, maxArticles, feeds, feedIdx,
                   articles, documents, inFlight, points, batchAt, upserts,
                   log, exitCode, runs>>
    /\ UNCHANGED <<chunkVars, storeVars>>

\* VectorStore.search(query, topK)
StoreSearch ==
    \E topK \in 1..TopK :
        StoreCall("search", topK, VectorSearch(index, topK), index)

\* VectorStore.addDocuments([doc])
StoreAddDocuments ==
    \E d \in EntryPool :
        StoreCall("addDocuments", d.id, <<>>, Upsert(index, <<d>>))

\* VectorStore.deleteDocument(id)
StoreDeleteDocument ==
    \E d \in EntryPool :
        StoreCall("deleteDocument", d.id, <<>>, {e \in index : e.id # d.id})

\* VectorStore.clearCollection()
StoreClearCollection == StoreCall("clearCollection", 0, <<>>, {})

\* VectorStore.getCollectionInfo()
StoreGetCollectionInfo ==
    StoreCall("getCollectionInfo", 0, <<Cardinality(index)>>, index)

\* catch (error) { logger.error('Failed to start server:', error);
\* process.exit(1) }
StartServerFails ==
    /\ spc' = "exited"
    /\ exitCode' = 1

\* await RedisClient.connect()
RedisConnect ==
    /\ spc = "connect"
    /\ \/ /\ redisConnected' = TRUE
          /\ spc' = "initialize"
          /\ UNCHANGED exitCode
       \/ /\ StartServerFails
          /\ UNCHANGED redisConnected
    /\ UNCHANGED <<listening, backendCalls, storeResult>>
    /\ UNCHANGED <<ipc, vsType, initialized, maxArticles, feeds, feedIdx,
                   articles, documents, inFlight, points, batchAt, upserts,
                   log, runs>>
    /\ UNCHANGED <<chunkVars, chatVars, storeVars>>

\* await VectorStore.initialize(): initialized is set once the backend
\* answered, an error is rethrown to startServer
ServerInitialize ==
    /\ spc = "initialize"
    /\ \/ /\ initialized' = TRUE
          /\ spc' = "listen"
          /\ UNCHANGED exitCode
       \/ /\ StartServerFails
          /\ UNCHANGED initialized
    /\ UNCHANGED <<redisConnected, listening, backendCalls, storeResult>>
    /\ UNCHANGED <<ipc, vsType, maxArticles, feeds, feedIdx,
                   articles, documents, inFlight, points, batchAt, upserts,
                   log, runs>>
    /\ UNCHANGED <<chunkVars, chatVars, storeVars>>

\* const server = app.listen(config.port, ...)
Listen ==
    /\ spc = "listen"
    /\ listening' = TRUE
    /\ spc' = "listening"
    /\ UNCHANGED <<redisConnected, backendCalls, storeResult>>
    /\ UNCHANGED <<chunkVars, chatVars, storeVars, ingestVars>>

ServerNext ==
    \/ RedisConnect
    \/ ServerInitialize
    \/ Listen
    \/ StoreSearch
    \/ StoreAddDocuments
    \/ StoreDeleteDocument
    \/ StoreClearCollection
    \/ StoreGetCollectionInfo

\* the server process has just been started over a collection that some
\* earlier ingestion has filled
ServerInit ==
    /\ spc = "connect"
    /\ redisConnected = FALSE
    /\ listening = FALSE
    /\ backendCalls = <<>>
    /\ storeResult = NoResult
    /\ index \in SUBSET EntryPool
    /\ vsType \in {"qdrant", "chroma"}
    /\ sessions = [s \in SessionIds |-> <<>>]
    /\ minted = {}
    /\ llmProvider = "gemini"
    /\ llmReady = {"gemini"}
    /\ req = [r \in Requests |-> IdleRequest]
    /\ expiry = [s \in SessionIds |-> 0]
    /\ now = 0
    /\ reply = NoReply
    /\ ipc = "idle"
    /\ initialized = FALSE
    /\ maxArticles = DefaultMaxArticles
    /\ feeds = <<>>
    /\ feedIdx = 0
    /\ articles = <<>>
    /\ documents = <<>>
    /\ inFlight = 0
    /\ points = <<>>
    /\ batchAt = 0
    /\ upserts = <<>>
    /\ log = <<>>
    /\ exitCode = -1
    /\ runs = 0

\* startServer is not running
ServerIdle ==
    /\ spc = "idle"
    /\ redisConnected = FALSE
    /\ listening = FALSE
    /\ backendCalls = <<>>
    /\ storeResult = NoResult

\* the chunker with no chat traffic, the chat service with no chunking
ChunkIdle ==
    /\ text = <<>>
    /\ chunkSize = 1
    /\ chunkOverlap = 0
    /\ i = 0
    /\ chunks = <<>>
    /\ iter = 0
    /\ cpc = "done"

ChatIdle ==
    /\ sessions = [s \in SessionIds |-> <<>>]
    /\ minted = {}
    /\ index = {}
    /\ llmProvider = "gemini"
    /\ llmReady = {}
    /\ req = [r \in Requests |-> IdleRequest]
    /\ expiry = [s \in SessionIds |-> 0]
    /\ now = 0
    /\ reply = NoReply

vars == <<chunkVars, chatVars, storeVars, ingestVars, serverVars>>

\* chunkText runs alone
InitChunk == ChunkInit /\ ChatIdle /\ IngestIdle /\ ServerIdle

SpecChunk == InitChunk /\ [][ChunkNext]_vars

\* the chat service runs alone
InitChat == ChatInit /\ ChunkIdle /\ IngestIdle /\ ServerIdle

SpecChat == InitChat /\ [][ChatNext]_vars

\* one request, every LLM configuration
InitGen == GenInit /\ ChunkIdle /\ IngestIdle /\ ServerIdle

SpecGen == InitGen /\ [][GenNext]_vars

\* one request whose response is a stream
InitStream == ChatInit /\ ChunkIdle /\ IngestIdle /\ ServerIdle

SpecStream == InitStream /\ [][StreamNext]_vars

\* one caller using /send, /history and /reset while time passes
InitSession == ChatInit /\ ChunkIdle /\ IngestIdle /\ ServerIdle

SpecSession == InitSession /\ [][SessionNext]_vars

\* ingestion runs over small feeds
InitIngest == IngestInit /\ ChunkDefaults /\ ChatIdle /\ ServerIdle

SpecIngest == InitIngest /\ [][IngestNext]_vars

\* the script run repeatedly over one small feed
InitReingest == ReingestInit /\ ChunkDefaults /\ ChatIdle /\ ServerIdle

SpecReingest == InitReingest /\ [][ReingestNext]_vars

\* requests to a session that already holds turns
InitPrompt == PromptInit /\ ChunkIdle /\ IngestIdle /\ ServerIdle

SpecPrompt == InitPrompt /\ [][PromptNext]_vars

\* the server starts while the vector store is being called
InitServer == ServerInit /\ ChunkIdle

SpecServer == InitServer /\ [][ServerNext]_vars

\* ingestion runs over one large feed
InitBulk == BulkInit /\ ChunkDefaults /\ ChatIdle /\ ServerIdle

SpecBulk == InitBulk /\ [][IngestNext]_vars

\* ------------------------------------------------------------------------
\* Properties of chunkText
\* ------------------------------------------------------------------------
ValidChunkConfig == 0 <= chunkOverlap /\ chunkOverlap < chunkSize

\* the characters of t at the 0-based positions from..to-1, cut at the end of t
Region(t, from, to) == [k \in 1..(Min(to, Len(t)) - from) |-> t[from + k]]

\* c is w without its leading and trailing blanks
IsTrimOf(c, w) ==
    \E lead \in 0..Len(w) :
        /\ lead + Len(c) <= Len(w)
        /\ \A k \in 1..Len(c) : c[k] = w[lead + k]
        /\ \A k \in 1..lead : w[k] = " "
        /\ \A k \in (lead + Len(c) + 1)..Len(w) : w[k] = " "
        /\ Len(c) > 0 => c[1] # " " /\ c[Len(c)] # " "

\* start positions of the windows the loop has visited so far
VisitedStarts ==
    {j \in 0..(Len(text) - 1) :
        j < i /\ j % (chunkSize - chunkOverlap) = 0}

AllStarts ==
    {j \in 0..(Len(text) - 1) : j % (chunkSize - chunkOverlap) = 0}

IsBlank(w) == \A k \in 1..Len(w) : w[k] = " "

NonBlankStarts(starts) ==
    {j \in starts : ~IsBlank(Region(text, j, j + chunkSize))}

\* position in chunks of the chunk cut from the window starting at j
ChunkIndex(j) == Cardinality({m \in NonBlankStarts(AllStarts) : m <= j})

FirstN(s, n) == SubSeq(s, 1, n)
LastN(s, n) == SubSeq(s, Len(s) - n + 1, Len(s))
DropN(s, n) == SubSeq(s, n + 1, Len(s))

\* C1: with 0 <= chunkOverlap < chunkSize every emitted chunk is non-empty,
\* at most chunkSize long and is the trimmed content of the window
\* text[j, j+chunkSize) for a j that is a multiple of chunkSize-chunkOverlap;
\* chunks come in increasing order of j and a blank window emits nothing.
C1_ChunksAreTrimmedWindows ==
    ValidChunkConfig =>
        LET emitting == NonBlankStarts(VisitedStarts)
        IN  /\ Len(chunks) = Cardinality(emitting)
            /\ \A j \in emitting :
                   LET c == chunks[Cardinality({m \in emitting : m <= j})]
                   IN  /\ Len(c) >= 1
                       /\ Len(c) <= chunkSize
                       /\ IsTrimOf(c, Region(text, j, j + chunkSize))

C1_Witness ==
    /\ cpc = "done"
    /\ ValidChunkConfig
    /\ chunkOverlap >= 1
    /\ Len(chunks) >= 2
    /\ Len(chunks) < Cardinality(AllStarts)
    /\ \E n \in 1..Len(chunks) : Len(chunks[n]) < chunkSize

\* the window starting at j, as far as trimming is concerned
Untrimmed(j) ==
    LET w == Region(text, j, j + chunkSize)
    IN  Len(w) > 0 /\ w[1] # " " /\ w[Len(w)] # " "

\* C2 as stated: every two consecutive chunks share exactly chunkOverlap
\* characters: the last chunkOverlap characters of the earlier chunk are the
\* first chunkOverlap characters of the later one.
C2_Original ==
    (cpc = "done" /\ ValidChunkConfig) =>
        \A n \in 1..(Len(chunks) - 1) :
            /\ Len(chunks[n]) >= chunkOverlap
            /\ Len(chunks[n + 1]) >= chunkOverlap
            /\ LastN(chunks[n], chunkOverlap) = FirstN(chunks[n + 1], chunkOverlap)

\* C2 (amended): two chunks cut from adjacent windows that trimming left
\* unchanged are consecutive in the output and share exactly chunkOverlap
\* characters, provided the later window holds at least chunkOverlap
\* characters.
C2_AdjacentUntrimmedWindowsOverlap ==
    (cpc = "done" /\ ValidChunkConfig) =>
        \A j \in AllStarts :
            LET nxt == j + (chunkSize - chunkOverlap)
            IN  ( /\ nxt \in AllStarts
                  /\ Untrimmed(j)
                  /\ Untrimmed(nxt)
                  /\ Len(text) - nxt >= chunkOverlap )
                =>
                ( /\ ChunkIndex(nxt) = ChunkIndex(j) + 1
                  /\ ChunkIndex(nxt) <= Len(chunks)
                  /\ Len(chunks[ChunkIndex(j)]) >= chunkOverlap
                  /\ Len(chunks[ChunkIndex(nxt)]) >= chunkOverlap
                  /\ LastN(chunks[ChunkIndex(j)], chunkOverlap)
                       = FirstN(chunks[ChunkIndex(nxt)], chunkOverlap) )

C2_Witness ==
    /\ cpc = "done"
    /\ ValidChunkConfig
    /\ chunkOverlap = 2
    /\ Len(chunks) >= 2
    /\ \E j \in AllStarts :
          LET nxt == j + (chunkSize - chunkOverlap)
          IN  /\ nxt \in AllStarts
              /\ Untrimmed(j)
              /\ Untrimmed(nxt)
              /\ Len(text) - nxt >= chunkOverlap
              /\ FirstN(chunks[ChunkIndex(nxt)], chunkOverlap) = <<"a", "b">>

\* the first chunk whole, then every later chunk without its first
\* chunkOverlap characters
RECURSIVE JoinTails(_, _)
JoinTails(cs, n) ==
    IF n > Len(cs) THEN <<>>
    ELSE DropN(cs[n], chunkOverlap) \o JoinTails(cs, n + 1)

Reconstruct(cs) == IF cs = <<>> THEN <<>> ELSE cs[1] \o JoinTails(cs, 2)

\* C3 as stated: for any text and valid configuration the non-overlapping
\* regions of the chunks, concatenated in order, are the original text.
C3_Original ==
    (cpc = "done" /\ ValidChunkConfig) => Reconstruct(chunks) = text

\* C3 (amended): the round trip holds for every text in which no window
\* begins or ends with a whitespace character.
C3_RoundTripWhenNothingTrimmed ==
    (cpc = "done" /\ ValidChunkConfig /\ \A j \in AllStarts : Untrimmed(j))
        => Reconstruct(chunks) = text

C3_Witness ==
    /\ cpc = "done"
    /\ ValidChunkConfig
    /\ chunkOverlap >= 1
    /\ \A j \in AllStarts : Untrimmed(j)
    /\ Len(chunks) >= 2
    /\ \E k \in 1..Len(text) : text[k] = " "
    /\ Reconstruct(chunks) = text

\* C4: with chunkOverlap >= chunkSize chunking fails fast: no iteration of
\* the loop leaves the window index where it was or moves it backwards.
C4_MalformedConfigMakesProgress ==
    [][(chunkOverlap >= chunkSize /\ cpc = "loop" /\ iter' = iter + 1)
          => i' > i]_vars

\* C5 as stated: a text shorter than chunkSize that is not blank gives
\* exactly one chunk, the whole text trimmed.
C5_Original ==
    (cpc = "done" /\ ValidChunkConfig /\ Len(text) < chunkSize /\ ~IsBlank(text))
        => (Len(chunks) = 1 /\ IsTrimOf(chunks[1], text))

\* C5 (amended): for a non-blank text shorter than chunkSize the first chunk
\* is the whole text trimmed; it is the only chunk when the text is at most
\* chunkSize - chunkOverlap long, longer texts give further chunks.
C5_ShortTextFirstChunkIsWholeText ==
    (cpc = "done" /\ ValidChunkConfig /\ Len(text) < chunkSize /\ ~IsBlank(text))
        => /\ Len(chunks) >= 1
           /\ IsTrimOf(chunks[1], text)
           /\ Len(text) <= chunkSize - chunkOverlap => Len(chunks) = 1

C5_Witness ==
    /\ cpc = "done"
    /\ ValidChunkConfig
    /\ chunkOverlap >= 1
    /\ Len(text) < chunkSize
    /\ Len(text) = chunkSize - chunkOverlap
    /\ Len(chunks) = 1
    /\ Len(chunks[1]) < Len(text)

\* ------------------------------------------------------------------------
\* Properties of POST /send
\* ------------------------------------------------------------------------
Started == {r \in Requests : req[r].pc # "idle"}

Called(q, op) == \E n \in 1..Len(q.calls) : q.calls[n].op = op

StoreCallsUse(q, sid) ==
    \A n \in 1..Len(q.calls) :
        q.calls[n].op \in {"getSessionHistory", "addToSessionHistory"}
            => q.calls[n].key = sid

\* r answered 200 and the turns it appended are the first two turns that
\* request r2 loaded
ReadsTurnsOf(r2, r) ==
    /\ Len(req[r2].history) >= 2
    /\ req[r2].history[1] =
          [role |-> "user", content |-> req[r].message, sources |-> <<>>]
    /\ req[r2].history[2].role = "assistant"
    /\ req[r2].history[2].content = req[r].body.response

MintedFor(r) ==
    /\ req[r].sessionId \in UuidPool
    /\ req[r].sessionId # ""
    /\ req[r].sessionId \in minted
    /\ \A r2 \in Started \ {r} :
          req[r2].provided \in {NoId, ""} => req[r2].sessionId # req[r].sessionId
    /\ \A r2 \in Started \ {r} :
          (req[r].status = 200 /\ req[r2].provided = req[r].sessionId
             /\ req[r2].pc \notin {"idle", "getHistory"})
          => ReadsTurnsOf(r2, r)

UsesOneId(r, sid) ==
    /\ req[r].sessionId = sid
    /\ StoreCallsUse(req[r], sid)
    /\ req[r].status = 200 => req[r].body.sessionId = sid

\* C6 as stated: a supplied sessionId (any string in the body) is the id the
\* request loads, appends to and returns; without one a fresh id is minted.
C6_Original ==
    \A r \in Started :
        IF req[r].provided # NoId
        THEN UsesOneId(r, req[r].provided)
        ELSE MintedFor(r) /\ UsesOneId(r, req[r].sessionId)

\* C6 (amended): a supplied non-empty sessionId is the id the request loads
\* the history of, appends both turns to and returns; when the sessionId is
\* omitted or is the empty string a fresh non-empty id is minted once, used
\* for the load and both appends, returned, and a later request supplying it
\* reads the turns this request appended.
C6_SessionResolution ==
    \A r \in Started :
        IF req[r].provided \notin {NoId, ""}
        THEN UsesOneId(r, req[r].provided)
        ELSE MintedFor(r) /\ UsesOneId(r, req[r].sessionId)

C6_Witness ==
    \E r \in Requests, r2 \in Requests :
        /\ req[r].provided = NoId
        /\ req[r].status = 200
        /\ req[r2].provided = req[r].sessionId
        /\ req[r2].status = 200
        /\ Len(req[r2].history) = 2
        /\ Len(sessions[req[r].sessionId]) = 4

\* C7: a request that completed generation appends the user's message and
\* then the assistant's answer with its citations at the end of its session;
\* the turns stored before stay as they were and no other session changes.
C7_RequestStep(r) ==
    LET q == req[r]
        q2 == req'[r]
    IN  /\ (q.pc = "generate" /\ q2.pc # "generate")
              => (q2.pc = "appendUser" /\ sessions' = sessions)
        /\ (q.pc = "appendUser" /\ q2.pc # "appendUser")
              => /\ q2.pc = "appendAssistant"
                 /\ sessions' = [sessions EXCEPT ![q.sessionId] =
                        @ \o <<[role |-> "user", content |-> q.message,
                                sources |-> <<>>]>>]
        /\ (q.pc = "appendAssistant" /\ q2.pc # "appendAssistant")
              => /\ q2.pc = "done"
                 /\ q2.status = 200
                 /\ sessions' = [sessions EXCEPT ![q.sessionId] =
                        @ \o <<[role |-> "assistant",
                                content |-> q.response.content,
                                sources |-> q.response.sources]>>]
        /\ (q.pc \notin {"appendUser", "appendAssistant"} /\ q2 # q)
              => sessions' = sessions

C7_AppendsTwoTurns == [][\A r \in Requests : C7_RequestStep(r)]_vars

C7_Witness ==
    \E r \in Requests :
        /\ req[r].status = 200
        /\ Len(req[r].history) = 2
        /\ req[r].body.sources # <<>>
        /\ Len(sessions[req[r].sessionId]) = 4
        /\ SubSeq(sessions[req[r].sessionId], 1, 2) = req[r].history
        /\ sessions[req[r].sessionId][4].sources = req[r].body.sources

PrimaryFailed(q) == llmProvider \notin llmReady \/ llmProvider \in q.down

\* C8: when the provider call throws or the provider was never initialised,
\* generateResponse returns the apology with no citations and the request
\* still answers 200 with the session id.
C8_GeneratorFailureGivesApology ==
    \A r \in Requests :
        (Called(req[r], "generateResponse") /\ PrimaryFailed(req[r]))
        => /\ req[r].response.content = Apology
           /\ req[r].response.sources = <<>>
           /\ req[r].pc \in {"appendUser", "appendAssistant", "done"}
           /\ req[r].pc = "done"
                 => /\ req[r].status = 200
                    /\ req[r].body.kind = "json"
                    /\ req[r].body.sessionId = req[r].sessionId
                    /\ req[r].body.response = Apology
                    /\ req[r].body.sources = <<>>

C8_Witness ==
    \E r \in Requests :
        /\ req[r].pc = "done"
        /\ llmProvider \in llmReady
        /\ llmProvider \in req[r].down
        /\ req[r].retrievedDocs # <<>>
        /\ req[r].status = 200
        /\ req[r].body.response = Apology

\* the first backend of the declared order, the configured one aside, that
\* is initialised and whose API works
RECURSIVE FirstUp(_, _)
FirstUp(up, n) ==
    IF n > Len(DeclaredOrder) THEN "none"
    ELSE IF DeclaredOrder[n] \in up THEN DeclaredOrder[n]
    ELSE FirstUp(up, n + 1)

\* C9: when the primary backend fails and another backend is configured and
\* healthy the response is the text of that backend, not the apology; the
\* apology is returned only after every backend has failed.
C9_FallbackChain ==
    \A r \in Requests :
        Called(req[r], "generateResponse")
        => LET up == llmReady \ req[r].down
           IN  /\ (PrimaryFailed(req[r]) /\ up # {})
                     => req[r].response.content = ProviderText(FirstUp(up, 1))
               /\ req[r].response.content = Apology => up = {}

SearchFailed(q) ==
    \E n \in 1..Len(q.calls) : q.calls[n].op = "search" /\ q.calls[n].info # "ok"

\* C10: when VectorStore.search throws the request is aborted: the generator
\* is not invoked, nothing is appended to the session, the store is left as
\* it was and the caller gets the 500 answer.
C10_RequestStep(r) ==
    LET q == req[r]
        q2 == req'[r]
    IN  /\ SearchFailed(q2)
              => /\ q2.pc = "done"
                 /\ q2.status = 500
                 /\ q2.body = ErrorBody
                 /\ ~Called(q2, "generateResponse")
                 /\ ~Called(q2, "addToSessionHistory")
                 /\ q2 # q => sessions' = sessions
        /\ SearchFailed(q) => q2 = q

C10_RetrievalFailureAborts == [][\A r \in Requests : C10_RequestStep(r)]_vars

C10_Witness ==
    \E r \in Requests :
        /\ SearchFailed(req[r])
        /\ req[r].status = 500
        /\ Len(req[r].history) = 2
        /\ sessions[req[r].sessionId] = req[r].history

\* ------------------------------------------------------------------------
\* Properties of the event-stream branch of /send
\* ------------------------------------------------------------------------
Streamed(r) == req[r].response.streaming /\ req[r].sse.headers

\* the first k events are the first k fragments of the stream, done = false
ForwardsFirst(r, k) ==
    /\ k <= Len(req[r].sse.events)
    /\ \A j \in 1..k :
          /\ req[r].sse.events[j].content = req[r].response.stream[j]
          /\ req[r].sse.events[j].done = FALSE

\* C11: on the event-stream path the events written are the stream's
\* fragments in production order with done = false; once the stream is
\* exhausted exactly one more event follows, with done = true, the citation
\* list and the resolved session id, it is the last event, and the response
\* is ended
C11_StreamEventOrder ==
    \A r \in Requests :
        Streamed(r) =>
            LET ev == req[r].sse.events
                n == Len(req[r].response.stream)
            IN  \/ /\ ~req[r].sse.ended
                   /\ Len(ev) <= n
                   /\ ForwardsFirst(r, Len(ev))
                \/ /\ req[r].sse.ended
                   /\ req[r].pc = "done"
                   /\ Len(ev) = n + 1
                   /\ ForwardsFirst(r, n)
                   /\ ev[n + 1] = [content |-> "", done |-> TRUE,
                                   sources |-> req[r].response.sources,
                                   sessionId |-> req[r].sessionId]

C11_Witness ==
    \E r \in Requests :
        /\ Streamed(r)
        /\ req[r].sse.ended
        /\ Len(req[r].response.stream) = 2
        /\ req[r].response.stream[1] # req[r].response.stream[2]
        /\ req[r].response.sources # <<>>

RECURSIVE Concat(_)
Concat(seq) == IF seq = <<>> THEN "" ELSE Head(seq) \o Concat(Tail(seq))

\* the text the caller of an event stream has received
StreamedText(r) ==
    Concat([j \in 1..Len(req[r].sse.events) |-> req[r].sse.events[j].content])

StoredAnswer(r) ==
    LET turns == GetSessionHistory(sessions, req[r].sessionId)
    IN  turns[Len(turns)].content

ResetAnswered(sid) ==
    reply'.n = reply.n + 1 /\ reply'.op = "reset" /\ reply'.sessionId = sid

HistoryAnswered(sid) ==
    reply'.n = reply.n + 1 /\ reply'.op = "history" /\ reply'.sessionId = sid

RECURSIVE TurnsUpTo(_, _)
TurnsUpTo(sid, r) ==
    IF r = 0 THEN <<>>
    ELSE TurnsUpTo(sid, r - 1) \o
         (IF req[r].pc = "done" /\ req[r].status = 200 /\ req[r].sessionId = sid
          THEN << [role |-> "user", content |-> req[r].message, sources |-> <<>>],
                  [role |-> "assistant", content |-> req[r].response.content,
                   sources |-> req[r].response.sources] >>
          ELSE <<>>)

Appended(r) ==
    /\ Len(req'[r].calls) = Len(req[r].calls) + 1
    /\ req'[r].calls[Len(req'[r].calls)].op = "addToSessionHistory"

ArticlesFrom(f) == SelectSeq(articles, LAMBDA a : a.source = f)

\* C16: the articles taken from all feeds never number more than maxArticles,
\* and no feed contributes more than the even share of that cap
C16_ArticleCap ==
    /\ Len(articles) <= maxArticles
    /\ \A f \in 1..Len(feeds) :
          Len(ArticlesFrom(f)) * Len(feeds) <= maxArticles + Len(feeds) - 1

\* the items fetchArticles took from the feeds that parsed
RECURSIVE TakenUpTo(_)
TakenUpTo(f) ==
    IF f = 0 THEN 0
    ELSE TakenUpTo(f - 1) +
         (IF feeds[f].parses
          THEN Min(Len(feeds[f].items),
                   (maxArticles + Len(feeds) - 1) \div Len(feeds))
          ELSE 0)

IsTaken(f, k) ==
    /\ feeds[f].parses
    /\ k <= Len(feeds[f].items)
    /\ k <= (maxArticles + Len(feeds) - 1) \div Len(feeds)

IndexedFrom(f, k) == \E e \in index : e.metadata.url = <<"url", f, k>>

\* C17: after a successful run an article whose extracted text is empty or
\* not longer than the minimum has no chunk in the index and every other
\* article taken has one; and the run's log carries the number of articles
\* fetched next to the number that went on to be indexed
C17_BestEffortPerArticle ==
    /\ exitCode = 0 =>
          \A f \in 1..Len(feeds) : \A k \in 1..MaxItems :
              IndexedFrom(f, k) <=> (IsTaken(f, k) /\ feeds[f].items[k] > 100)
    /\ ipc \notin {"start", "fetch", "extract"} =>
          \/ \E k \in 1..Len(log) : log[k].msg = "Data ingestion failed"
          \/ /\ \E k \in 1..Len(log) :
                   /\ log[k].msg = "Fetched articles"
                   /\ log[k].n = TakenUpTo(Len(feeds))
             /\ \E k \in 1..Len(log) : log[k].n = Len(articles)

\* C18: never more than 100 generateEmbedding calls are in flight, and no
\* write to the backend starts while one is
C18_BoundedEmbeddingConcurrency ==
    /\ inFlight <= 100
    /\ ipc = "upsert" => inFlight = 0

RECURSIVE Flatten(_)
Flatten(seqs) == IF seqs = <<>> THEN <<>> ELSE Head(seqs) \o Flatten(Tail(seqs))

PairedWithOwnEmbedding(pt, doc) ==
    /\ pt.id = doc.id
    /\ pt.content = doc.content
    /\ pt.vector = <<"vector", doc.content>>

\* C19: the acknowledged writes hold at most 100 entries each, taken
\* together they are the documents in order, each once and paired with the
\* embedding of its own content, and after a successful run they are all of
\* the documents and all in the index
C19_BatchedUpsert ==
    LET sent == Flatten(upserts)
    IN  /\ \A b \in 1..Len(upserts) : Len(upserts[b]) <= 100
        /\ Len(sent) <= Len(documents)
        /\ \A k \in 1..Len(sent) : PairedWithOwnEmbedding(sent[k], documents[k])
        /\ \A k \in 1..Len(sent) : sent[k] \in index
        /\ exitCode = 0 => Len(sent) = Len(documents)

RunFailed == \E k \in 1..Len(log) : log[k].msg = "Data ingestion failed"
RunCompleted ==
    \E k \in 1..Len(log) : log[k].msg = "Data ingestion completed successfully"

\* C20: a run in which an embedding call or a write failed is rejected, is
\* never logged as completed and exits with code 1, and the entries of the
\* writes acknowledged before the failure are still in the index
C20_FailureIsReported ==
    /\ RunFailed =>
          /\ ipc \in {"rejected", "exited"}
          /\ ~RunCompleted
          /\ ipc = "exited" => exitCode = 1
    /\ exitCode = 0 => (RunCompleted /\ ~RunFailed)
    /\ \A b \in 1..Len(upserts) : Range(upserts[b]) \subseteq index

\* the second write of a run failed after the first 100 entries were stored
C20_Witness ==
    /\ ipc = "exited"
    /\ exitCode = 1
    /\ Len(upserts) = 1
    /\ Len(points) > 100
    /\ Cardinality(index) = 100

OwnArticle(d) ==
    \E a \in 1..Len(articles) :
        /\ d.content[1] = articles[a].url
        /\ d.metadata = [title |-> articles[a].title, url |-> articles[a].url,
                         timestamp |-> articles[a].publishedAt,
                         source |-> articles[a].source]

\* C21: the documents of a run have pairwise different ids and carry the
\* title, URL, timestamp and source of the article they were cut from; no
\* two entries of the index share an id, and a write never replaces or
\* removes an entry: the index grows by exactly the entries written, also
\* when the same articles are ingested again
C21_ChunkIdsUnique ==
    /\ [](/\ \A k, l \in 1..Len(documents) :
                documents[k].id = documents[l].id => k = l
          /\ \A k \in 1..Len(documents) : OwnArticle(documents[k])
          /\ \A d, e \in index : d.id = e.id => d = e)
    /\ [][/\ index \subseteq index'
          /\ Len(upserts') = Len(upserts) + 1 =>
                Cardinality(index') =
                    Cardinality(index) + Len(upserts'[Len(upserts')])]_vars

\* the same two-chunk articles were ingested twice and the index holds the
\* chunks of both runs
C21_Witness ==
    /\ runs = 1
    /\ exitCode = 0
    /\ Len(articles) = 2
    /\ Len(documents) = 4
    /\ Cardinality(index) = 8

\* Fetching, Extracting, (Chunking done), Embedding, Upserting, Done/Failed
PhaseRank(p) ==
    CASE p = "fetch" -> 1
      [] p = "extract" -> 2
      [] p = "add" -> 3
      [] p = "embed" -> 4
      [] p = "upsert" -> 5
      [] p \in {"resolved", "rejected"} -> 6
      [] p = "exited" -> 7
      [] OTHER -> 0

\* the moves of a run between its phases
PhaseSteps ==
    { <<"start", "fetch">>, <<"start", "rejected">>,
      <<"fetch", "extract">>, <<"extract", "fetch">>, <<"fetch", "add">>,
      <<"add", "embed">>,
      <<"embed", "upsert">>, <<"embed", "rejected">>,
      <<"upsert", "resolved">>, <<"upsert", "rejected">>,
      <<"resolved", "exited">>, <<"rejected", "exited">> }

\* C22 as stated: a run never returns to an earlier phase
C22_PhasesNeverReturn == [][PhaseRank(ipc') >= PhaseRank(ipc)]_vars

\* C22: a run fetches and extracts one feed after the other, then chunks,
\* embeds and writes in that order; it fails only out of the initialisation
\* of the store, the embedding or the writing; it ends either completed or
\* failed, never both, completed only once every batch of points has been
\* acknowledged and stored, and it cannot get stuck before it has ended
C22_PhaseOrder ==
    /\ [][ipc' # ipc => <<ipc, ipc'>> \in PhaseSteps]_vars
    /\ [](ipc = "resolved" =>
            /\ Flatten(upserts) = points
            /\ Range(points) \subseteq index
            /\ RunCompleted /\ ~RunFailed)
    /\ [](ipc = "rejected" => (RunFailed /\ ~RunCompleted))
    /\ [](ipc # "exited" => ENABLED IngestNext)

\* a run over two feeds that both parsed has completed
C22_Witness ==
    /\ ipc = "resolved"
    /\ Len(feeds) = 2
    /\ \A f \in 1..2 : feeds[f].parses
    /\ Len(articles) >= 2
    /\ Len(points) >= 2

\* C23: a search that reached the backend returns min(topK, number of
\* entries) matches, each of them an entry of the collection with its
\* content, metadata and similarity, no entry twice, by descending score
C23_SearchReturnsTopMatches ==
    [][(storeResult'.op = "search" /\ storeResult'.threw = ""
            /\ backendCalls' # backendCalls) =>
        LET topK == storeResult'.arg
            matches == storeResult'.value
        IN  /\ Len(matches) <= topK
            /\ Len(matches) = Min(topK, Cardinality(index))
            /\ \A n \in 1..Len(matches) : matches[n] \in index
            /\ \A m, n \in 1..Len(matches) :
                  matches[m].id = matches[n].id => m = n
            /\ \A n \in 1..Len(matches) - 1 :
                  matches[n].score >= matches[n + 1].score
            /\ \A n \in 1..Len(matches) : \A e \in index :
                  e.score > matches[n].score =>
                      \E m \in 1..n - 1 : matches[m] = e]_vars

\* a search with topK = 5 over two entries on Chroma returned them both, and
\* a search with topK = 2 over four entries returned two
C23_Witness ==
    /\ storeResult.op = "search"
    /\ storeResult.threw = ""
    /\ vsType = "chroma"
    /\ \/ storeResult.arg = 5 /\ Cardinality(index) = 2 /\ Len(storeResult.value) = 2
       \/ storeResult.arg = 2 /\ Cardinality(index) = 4 /\ Len(storeResult.value) = 2

\* C28: while the vector store is not initialized a call of search,
\* addDocuments, deleteDocument, clearCollection or getCollectionInfo throws
\* 'Vector store not initialized', reaches no backend and leaves the
\* collection alone; the server listens only once RedisClient.connect and
\* then VectorStore.initialize have succeeded, and a start in which either
\* failed exits with code 1 without listening
C28_InitializeBeforeUse ==
    /\ [][~initialized =>
            /\ backendCalls' = backendCalls
            /\ index' = index
            /\ storeResult' # storeResult =>
                  /\ storeResult'.threw = NotInitialized
                  /\ storeResult'.op \in {"search", "addDocuments", "deleteDocument",
                                          "clearCollection", "getCollectionInfo"}]_vars
    /\ [](initialized => redisConnected)
    /\ [](listening => (redisConnected /\ initialized /\ exitCode = -1))
    /\ [](spc = "exited" => (exitCode = 1 /\ ~listening /\ ~initialized))
    /\ [][spc' = "exited" => spc \in {"connect", "initialize"}]_vars

\* deleteDocument was called before the store was initialized and threw;
\* the server then started and listens
C28_Witness ==
    /\ listening
    /\ storeResult.op = "deleteDocument"
    /\ storeResult.threw = NotInitialized
    /\ backendCalls = <<>>

\* C24: when the provider answered, the citations of the response are the
\* retrieved matches one for one and in their order, each with the title,
\* the URL and the score of its match; the answered request has stored that
\* list on the assistant turn and sent it to the caller
C24_CitationsMirrorMatches ==
    \A r \in Requests :
        (Called(req[r], "generateResponse") /\ ~PrimaryFailed(req[r])) =>
            LET cited == req[r].response.sources
                matches == req[r].retrievedDocs
                turns == sessions[req[r].sessionId]
            IN  /\ Len(cited) = Len(matches)
                /\ \A n \in 1..Len(matches) :
                      /\ cited[n].title = matches[n].metadata.title
                      /\ cited[n].url = matches[n].metadata.url
                      /\ cited[n].relevance = matches[n].score
                /\ req[r].pc = "done" =>
                      /\ req[r].body.sources = cited
                      /\ \E k \in 1..Len(turns) :
                            /\ turns[k].role = "assistant"
                            /\ turns[k].content = req[r].response.content
                            /\ turns[k].sources = cited

\* a request whose provider answered over two matches has been answered
C24_Witness ==
    \E r \in Requests :
        /\ req[r].pc = "done"
        /\ req[r].status = 200
        /\ ~PrimaryFailed(req[r])
        /\ Len(req[r].retrievedDocs) = 2
        /\ Len(req[r].body.sources) = 2
        /\ req[r].body.sources[1].relevance > req[r].body.sources[2].relevance

Prompted == {r \in Requests : Called(req[r], "generateResponse")}

\* C25: the context block handed to the provider is the fixed statement that
\* no relevant context was found when retrieval returned nothing, never the
\* empty text; otherwise it holds one entry per match, numbered from 1 in the
\* order retrieval returned them, with the title and the text of the match
C25_ContextBlock ==
    \A r \in Prompted :
        LET block == req[r].prompt.contextText
            matches == req[r].retrievedDocs
            n == Len(matches)
        IN  /\ block # <<>>
            /\ n = 0 => block = <<NoContext>>
            /\ n > 0 =>
                  /\ Len(block) = 8 * n - 1
                  /\ \A k \in 1..n :
                        /\ block[8 * (k - 1) + 2] = ToString(k)
                        /\ block[8 * (k - 1) + 4] = matches[k].metadata.title
                        /\ block[8 * (k - 1) + 6] = matches[k].content
                  /\ \A k \in 1..n - 1 : matches[k].score >= matches[k + 1].score

\* one request was prompted with the fixed statement over an empty
\* collection, or with two numbered entries
C25_Witness ==
    \E r \in Prompted :
        \/ index = {} /\ req[r].prompt.contextText = <<NoContext>>
        \/ Len(req[r].retrievedDocs) = 2 /\ Len(req[r].prompt.contextText) = 15

\* C26: the history a request loads is the turns stored for its session at
\* that moment, and the history handed to the provider is the last
\* min(5, n) of these n turns in their order, one line each with the role
\* and the content of the turn; the current message is not among them
C26_HistoryWindow ==
    /\ [][\A r \in Requests :
            (req[r].pc = "getHistory" /\ req'[r].pc # "getHistory") =>
                req'[r].history = sessions[req[r].sessionId]]_vars
    /\ [](\A r \in Prompted :
            LET lines == req[r].prompt.conversationHistory
                stored == req[r].history
                n == Len(stored)
                m == Min(HistoryWindow, n)
            IN  /\ Len(lines) = IF m = 0 THEN 0 ELSE 4 * m - 1
                /\ \A k \in 1..m :
                      /\ lines[4 * (k - 1) + 1] =
                            IF stored[n - m + k].role = "user" THEN "User"
                            ELSE "Assistant"
                      /\ lines[4 * (k - 1) + 3] = stored[n - m + k].content
                /\ req[r].prompt.message = req[r].message)

\* a request to a session of seven turns was prompted with the last five
C26_Witness ==
    \E r \in Prompted :
        /\ Len(req[r].history) = 7
        /\ Len(req[r].prompt.conversationHistory) = 19
        /\ req[r].prompt.conversationHistory[3] = "t3"

\* README, Retry & Backoff: 3 retries of an LLM API call, 2 of a vector
\* store operation
LlmRetries == 3
VectorStoreRetries == 2

CallCount(q, op) == Cardinality({n \in 1..Len(q.calls) : q.calls[n].op = op})

C29_PairsStayAdjacent ==
    \A sid \in SessionIds :
        LET turns == sessions[sid]
        IN  \A k \in 1..Len(turns) - 1 :
                turns[k].role = "user" =>
                    /\ turns[k + 1].role = "assistant"
                    /\ \E r \in Requests :
                          /\ req[r].sessionId = sid
                          /\ turns[k].content = req[r].message
                          /\ turns[k + 1].content = req[r].response.content

PastRetrieval(q) ==
    \E n \in 1..Len(q.calls) : q.calls[n].op = "search" /\ q.calls[n].info = "ok"

\* C30 as stated: a session always holds twice as many turns as it has
\* requests that got past retrieval
C30_AlwaysTwoTurnsPerRequest ==
    \A sid \in SessionIds :
        Len(sessions[sid]) =
            2 * Cardinality({r \in Requests :
                                req[r].sessionId = sid /\ PastRetrieval(req[r])})

\* C30: a request whose provider failed has, once answered, stored the
\* user's message and after it an assistant turn holding the apology and no
\* citations; a session holds two turns for each of its answered requests
\* that got past retrieval and one for each that is between its two appends
C30_TurnsOfFailedGeneration ==
    /\ \A r \in Requests :
          (req[r].pc = "done" /\ PastRetrieval(req[r]) /\ PrimaryFailed(req[r])) =>
              LET turns == sessions[req[r].sessionId]
              IN  \E k \in 1..Len(turns) : \E l \in (k + 1)..Len(turns) :
                      /\ turns[k] = [role |-> "user", content |-> req[r].message,
                                     sources |-> <<>>]
                      /\ turns[l].role = "assistant"
                      /\ turns[l].content = req[r].response.content
                      /\ turns[l].content = Apology
                      /\ turns[l].sources = <<>>
    /\ \A sid \in SessionIds :
          Len(sessions[sid]) =
              2 * Cardinality({r \in Requests :
                                  /\ req[r].sessionId = sid
                                  /\ PastRetrieval(req[r])
                                  /\ req[r].pc = "done"})
              + Cardinality({r \in Requests :
                                /\ req[r].sessionId = sid
                                /\ req[r].pc = "appendAssistant"})

\* two requests of one session, the provider failing for one of them, have
\* been answered and the session holds four turns
C30_Witness ==
    \E r, q \in Requests :
        /\ r # q
        /\ req[r].sessionId = req[q].sessionId
        /\ req[r].pc = "done" /\ req[q].pc = "done"
        /\ PrimaryFailed(req[r]) /\ ~PrimaryFailed(req[q])
        /\ req[r].body.response = Apology
        /\ Len(sessions[req[r].sessionId]) = 4

====
